---- MODULE Spec2Model ----
(***************************************************************************)
(* TypePolish backend (backend/main.py): the lazily cached LanguageTool     *)
(* client, the /correct and /polish-ai handlers and the text functions     *)
(* they call.  Text is a sequence of one-character strings.                *)
(***************************************************************************)
EXTENDS Integers, Sequences, FiniteSets, TLC

(***************************************************************************)
(* Bounds of the model.                                                    *)
(***************************************************************************)
MaxTextLen == 3
NumThreads == 2
MaxFailedInits == 2
MaxOkInits == 2

(***************************************************************************)
(* Characters.                                                             *)
(***************************************************************************)
LowerLetters == <<"a","b","c","d","e","f","g","h","i","j","k","l","m",
                  "n","o","p","q","r","s","t","u","v","w","x","y","z">>
UpperLetters == <<"A","B","C","D","E","F","G","H","I","J","K","L","M",
                  "N","O","P","Q","R","S","T","U","V","W","X","Y","Z">>
Eszett == "ß"
Whitespace == {" ", "\t"}
Terminators == {".", "!", "?"}

\* str.upper() of one character; the sharp s uppercases to two characters
CharUpper(c) ==
  IF \E i \in 1..26 : LowerLetters[i] = c
    THEN <<UpperLetters[CHOOSE i \in 1..26 : LowerLetters[i] = c]>>
    ELSE IF c = Eszett THEN <<"S", "S">> ELSE <<c>>

\* str.lower() of one character
CharLower(c) ==
  IF \E i \in 1..26 : UpperLetters[i] = c
    THEN LowerLetters[CHOOSE i \in 1..26 : UpperLetters[i] = c]
    ELSE c

\* str.isalpha() of one character
IsAlpha(c) ==
  \/ \E i \in 1..26 : LowerLetters[i] = c \/ UpperLetters[i] = c
  \/ c = Eszett

(***************************************************************************)
(* Python str methods.                                                     *)
(***************************************************************************)
RECURSIVE lstrip(_)
lstrip(s) ==
  IF s # <<>> /\ s[1] \in Whitespace THEN lstrip(Tail(s)) ELSE s

RECURSIVE rstrip(_)
rstrip(s) ==
  IF s # <<>> /\ s[Len(s)] \in Whitespace
    THEN rstrip(SubSeq(s, 1, Len(s) - 1)) ELSE s

strip(s) == rstrip(lstrip(s))

lower(s) == [i \in 1..Len(s) |-> CharLower(s[i])]

RECURSIVE upper(_)
upper(s) == IF s = <<>> THEN <<>> ELSE CharUpper(s[1]) \o upper(Tail(s))

\* s.capitalize(): first character uppercased, the rest lowercased
capitalize(s) ==
  IF s = <<>> THEN <<>> ELSE CharUpper(s[1]) \o lower(Tail(s))

\* sub in s
Contains(s, sub) ==
  \E i \in 1..(Len(s) - Len(sub) + 1) : SubSeq(s, i, i + Len(sub) - 1) = sub

\* s.rfind(sub) as a 1-based position (s contains sub)
rfind(s, sub) ==
  CHOOSE i \in 1..(Len(s) - Len(sub) + 1) :
    /\ SubSeq(s, i, i + Len(sub) - 1) = sub
    /\ \A j \in (i + 1)..(Len(s) - Len(sub) + 1) :
         SubSeq(s, j, j + Len(sub) - 1) # sub

\* s.replace(old, new), old non-empty: left to right, non-overlapping
RECURSIVE replace(_, _, _)
replace(s, old, new) ==
  IF Len(s) < Len(old) THEN s
  ELSE IF SubSeq(s, 1, Len(old)) = old
    THEN new \o replace(SubSeq(s, Len(old) + 1, Len(s)), old, new)
    ELSE <<s[1]>> \o replace(Tail(s), old, new)

\* " ".join(s.split()): whitespace runs collapsed to one space, trimmed
RECURSIVE Collapse(_)
Collapse(t) ==
  IF t = <<>> THEN <<>>
  ELSE IF t[1] \in Whitespace THEN <<" ">> \o Collapse(lstrip(t))
  ELSE <<t[1]>> \o Collapse(Tail(t))

JoinSplit(s) == Collapse(strip(s))

\* Python None, and  x or default
None == <<"<None>">>
OrDefault(x, d) == IF x = None \/ x = <<>> THEN d ELSE x

(***************************************************************************)
(* String literals of the program.                                         *)
(***************************************************************************)
S_grammar      == <<"g", "r", "a", "m", "m", "a", "r">>
S_professional == <<"p", "r", "o", "f", "e", "s", "s", "i", "o", "n", "a", "l">>
S_casual       == <<"c", "a", "s", "u", "a", "l">>
S_friendly     == <<"f", "r", "i", "e", "n", "d", "l", "y">>
S_confident    == <<"c", "o", "n", "f", "i", "d", "e", "n", "t">>
S_calm         == <<"c", "a", "l", "m">>
S_caring       == <<"c", "a", "r", "i", "n", "g">>
S_persuasive   == <<"p", "e", "r", "s", "u", "a", "s", "i", "v", "e">>
S_neutral      == <<"n", "e", "u", "t", "r", "a", "l">>
S_student      == <<"s", "t", "u", "d", "e", "n", "t">>
S_corporate    == <<"c", "o", "r", "p", "o", "r", "a", "t", "e">>
S_ielts        == <<"i", "e", "l", "t", "s">>
S_romantic     == <<"r", "o", "m", "a", "n", "t", "i", "c">>
S_rewritten    == <<"r", "e", "w", "r", "i", "t", "t", "e", "n", ":">>
S_text         == <<"t", "e", "x", "t", ":">>

NO_TEXT == "No text provided."
GRAMMAR_SUMMARY ==
  "Grammar and spelling corrected using LanguageToolPublicAPI with {mode} style."
HF_SUMMARY ==
  "Expression adjusted using Smart Rewrite v3 (Hugging Face) with '{tone_label}' tone and '{style_label}' writing style."
FALLBACK_SUMMARY ==
  "Basic rewrite applied using grammar correction only; Hugging Face model was not available. Tone: '{tone_label}', Style: '{style_label}'."
PROMPT ==
  "Paraphrase the following text {tone_part} and {style_part}. Keep the original meaning and person the same. Use natural, fluent sentences and split long sentences if needed.\n\nText: {text}\n\nRewritten:"

\* dict.get(key, default) over a dict written as a sequence of <<key, value>>
DictGet(d, key, default) ==
  IF \E i \in 1..Len(d) : d[i][1] = key
    THEN d[CHOOSE i \in 1..Len(d) : d[i][1] = key][2]
    ELSE default

(***************************************************************************)
(* build_hf_prompt                                                         *)
(***************************************************************************)
tone_instruction_map ==
  << <<S_friendly,     "in a warm, friendly tone">>,
     <<S_professional, "in a clear and professional tone">>,
     <<S_confident,    "in a confident, self-assured tone">>,
     <<S_calm,         "in a calm and composed tone">>,
     <<S_caring,       "in a caring and supportive tone">>,
     <<S_persuasive,   "in a persuasive and encouraging tone">>,
     <<S_neutral,      "in a neutral tone">> >>

style_instruction_map ==
  << <<S_neutral,   "with normal everyday English">>,
     <<S_student,   "with simple, clear English suitable for a college student">>,
     <<S_corporate, "with formal business email style">>,
     <<S_ielts,     "with IELTS-style academic English">>,
     <<S_romantic,  "with soft and gentle wording, but still respectful">> >>

\* an unknown tone read as the request default, friendly
tone_part_default_friendly(tone) ==
  DictGet(tone_instruction_map, tone, "in a warm, friendly tone")

tone_part(tone) == DictGet(tone_instruction_map, tone, "in a neutral tone")

style_part(style) ==
  DictGet(style_instruction_map, style, "with normal everyday English")

build_hf_prompt(text, tone, style) ==
  [template |-> PROMPT, tone_part |-> tone_part(tone),
   style_part |-> style_part(style), text |-> text]

(***************************************************************************)
(* basic_tone_adjust                                                       *)
(***************************************************************************)
professional_replacements ==
  << << <<" ", "b", "r", "o">>,           <<" ", "s", "i", "r">> >>,
     << <<" ", "g", "o", "n", "n", "a">>, <<" ", "g", "o", "i", "n", "g", " ", "t", "o">> >>,
     << <<" ", "w", "a", "n", "n", "a">>, <<" ", "w", "a", "n", "t", " ", "t", "o">> >>,
     << <<" ", "d", "o", "n", "'", "t">>, <<" ", "d", "o", " ", "n", "o", "t">> >>,
     << <<" ", "c", "a", "n", "'", "t">>, <<" ", "c", "a", "n", "n", "o", "t">> >>,
     << <<" ", "w", "o", "n", "'", "t">>, <<" ", "w", "i", "l", "l", " ", "n", "o", "t">> >>,
     << <<" ", "o", "k", "a", "y">>,      <<" ", "a", "l", "l", " ", "r", "i", "g", "h", "t">> >>,
     << <<" ", "o", "k">>,                <<" ", "a", "l", "l", " ", "r", "i", "g", "h", "t">> >> >>

casual_replacements ==
  << << <<"s", "i", "r">>,           <<"b", "r", "o">> >>,
     << <<"m", "a", "d", "a", "m">>, <<"b", "r", "o">> >> >>

\* for w, r in replacements.items(): updated = updated.replace(w, r)
RECURSIVE ReplaceAll(_, _, _)
ReplaceAll(updated, replacements, i) ==
  IF i > Len(replacements) THEN updated
  ELSE ReplaceAll(replace(updated, replacements[i][1], replacements[i][2]),
                  replacements, i + 1)

basic_tone_adjust(text, mode) ==
  IF mode = S_professional THEN ReplaceAll(text, professional_replacements, 1)
  ELSE IF mode = S_casual THEN ReplaceAll(text, casual_replacements, 1)
  ELSE text

(***************************************************************************)
(* simple_correct, after the grammar pass                                  *)
(***************************************************************************)
\* without the test of line 264: the full stop is always appended
capitalize_and_punctuate_always_dot(corrected) ==
  LET c1 == IF corrected # <<>>
              THEN CharUpper(corrected[1]) \o Tail(corrected)
              ELSE corrected
  IN IF c1 # <<>> THEN Append(c1, ".") ELSE c1

\* corrected[0].upper() + corrected[1:], then "." unless it ends in . ! ?
capitalize_and_punctuate(corrected) ==
  LET c1 == IF corrected # <<>>
              THEN CharUpper(corrected[1]) \o Tail(corrected)
              ELSE corrected
  IN IF c1 # <<>> /\ c1[Len(c1)] \notin Terminators
       THEN Append(c1, ".") ELSE c1

\* lines 259-268: light tone, capitalisation, punctuation and the summary
simple_correct_finish(corrected, mode) ==
  [corrected |-> capitalize_and_punctuate(basic_tone_adjust(corrected, mode)),
   summary   |-> [template |-> GRAMMAR_SUMMARY, args |-> <<mode>>]]

(***************************************************************************)
(* call_hf_rewrite.  The outcome of requests.post(...).json() is o:        *)
(*   kind "error"      post, raise_for_status or json raised               *)
(*   kind "list_dict"  data = [{...}], gen = data[0].get("generated_text") *)
(*   kind "list_empty" data = []                                           *)
(*   kind "list_other" data = [x], x not a dict                            *)
(*   kind "dict"       data = {"generated_text": gen}                      *)
(*   kind "dict_nokey" data = {...} without "generated_text"               *)
(*   kind "scalar"     data is neither a list nor a dict                   *)
(* gen is None, NonStr (a truthy value that is not a str) or a text.       *)
(***************************************************************************)
NonStr == <<"<int>">>

\* lines 182-186: collapse whitespace, capitalise a letter, punctuate
hf_tidy(text) ==
  LET t1 == JoinSplit(text)
      t2 == IF t1 # <<>> /\ IsAlpha(t1[1])
              THEN CharUpper(t1[1]) \o Tail(t1) ELSE t1
  IN IF t2 # <<>> /\ t2[Len(t2)] \notin Terminators
       THEN Append(t2, ".") ELSE t2

\* lines 169-180: cut off the instructions if the model echoes them
cut_echo(generated) ==
  LET text == strip(generated)
      low  == lower(text)
  IN IF Contains(low, S_rewritten)
       THEN strip(SubSeq(text, rfind(low, S_rewritten) + Len(S_rewritten),
                         Len(text)))
     ELSE IF Contains(low, S_text)
       THEN LET tail == strip(SubSeq(text, rfind(low, S_text) + Len(S_text),
                                     Len(text)))
            IN IF 0 < Len(tail) /\ Len(tail) < Len(text) THEN tail ELSE text
     ELSE text

\* without the test of line 188: an empty rewrite is returned as a success
call_hf_rewrite_empty_ok(prompt, fallback, token, o) ==
  IF token = None \/ token = <<>>
    THEN [text |-> fallback, used_hf |-> FALSE, posts |-> 0]
  ELSE IF o.kind = "error"
    THEN [text |-> fallback, used_hf |-> FALSE, posts |-> 1]
  ELSE
    LET generated == IF o.kind \in {"list_dict", "dict"} THEN o.gen ELSE None
    IN IF generated = None \/ generated = <<>>
         THEN [text |-> fallback, used_hf |-> FALSE, posts |-> 1]
       ELSE IF generated = NonStr
         THEN [text |-> fallback, used_hf |-> FALSE, posts |-> 1]
       ELSE [text |-> hf_tidy(cut_echo(generated)), used_hf |-> TRUE,
             posts |-> 1]

\* without a token nothing is returned instead of the fallback
call_hf_rewrite_no_token_empty(prompt, fallback, token, o) ==
  IF token = None \/ token = <<>>
    THEN [text |-> <<>>, used_hf |-> FALSE, posts |-> 0]
  ELSE IF o.kind = "error"
    THEN [text |-> fallback, used_hf |-> FALSE, posts |-> 1]
  ELSE
    LET generated == IF o.kind \in {"list_dict", "dict"} THEN o.gen ELSE None
    IN IF generated = None \/ generated = <<>>
         THEN [text |-> fallback, used_hf |-> FALSE, posts |-> 1]
       ELSE IF generated = NonStr
         THEN [text |-> fallback, used_hf |-> FALSE, posts |-> 1]
       ELSE LET text == hf_tidy(cut_echo(generated))
            IN IF text = <<>>
                 THEN [text |-> fallback, used_hf |-> FALSE, posts |-> 1]
                 ELSE [text |-> text, used_hf |-> TRUE, posts |-> 1]

\* a failed post is sent once more
call_hf_rewrite_retry(prompt, fallback, token, o) ==
  IF token = None \/ token = <<>>
    THEN [text |-> fallback, used_hf |-> FALSE, posts |-> 0]
  ELSE IF o.kind = "error"
    THEN [text |-> fallback, used_hf |-> FALSE, posts |-> 2]
  ELSE
    LET generated == IF o.kind \in {"list_dict", "dict"} THEN o.gen ELSE None
    IN IF generated = None \/ generated = <<>>
         THEN [text |-> fallback, used_hf |-> FALSE, posts |-> 1]
       ELSE IF generated = NonStr
         THEN [text |-> fallback, used_hf |-> FALSE, posts |-> 1]
       ELSE LET text == hf_tidy(cut_echo(generated))
            IN IF text = <<>>
                 THEN [text |-> fallback, used_hf |-> FALSE, posts |-> 1]
                 ELSE [text |-> text, used_hf |-> TRUE, posts |-> 1]

call_hf_rewrite(prompt, fallback, token, o) ==
  IF token = None \/ token = <<>>
    THEN [text |-> fallback, used_hf |-> FALSE, posts |-> 0]
  ELSE IF o.kind = "error"
    THEN [text |-> fallback, used_hf |-> FALSE, posts |-> 1]
  ELSE
    LET generated == IF o.kind \in {"list_dict", "dict"} THEN o.gen ELSE None
    IN IF generated = None \/ generated = <<>>
         THEN [text |-> fallback, used_hf |-> FALSE, posts |-> 1]
       ELSE IF generated = NonStr   \* generated.strip() raises, caught
         THEN [text |-> fallback, used_hf |-> FALSE, posts |-> 1]
       ELSE LET text == hf_tidy(cut_echo(generated))
            IN IF text = <<>>
                 THEN [text |-> fallback, used_hf |-> FALSE, posts |-> 1]
                 ELSE [text |-> text, used_hf |-> TRUE, posts |-> 1]

\* polish_ai, lines 309-334, given the grammar pass and the rewrite
polish_response(body, rewritten, used_hf) ==
  LET tone  == lower(OrDefault(body.tone, S_friendly))
      style == lower(OrDefault(body.style, S_neutral))
  IN [status         |-> 200,
      correctedText  |-> rewritten,
      changesSummary |->
        [template |-> IF used_hf THEN HF_SUMMARY ELSE FALLBACK_SUMMARY,
         args     |-> <<capitalize(tone), capitalize(style)>>],
      appliedTone    |-> tone,
      appliedStyle   |-> style]

\* the short-circuit without its summary
no_text_response_silent ==
  [status         |-> 200,
   correctedText  |-> <<>>,
   changesSummary |-> [template |-> "", args |-> <<>>],
   appliedTone    |-> None,
   appliedStyle   |-> None]

\* the short-circuit response of every endpoint
no_text_response ==
  [status         |-> 200,
   correctedText  |-> <<>>,
   changesSummary |-> [template |-> NO_TEXT, args |-> <<>>],
   appliedTone    |-> None,
   appliedStyle   |-> None]

(***************************************************************************)
(* /rewrite-tone is served by a handler outside main.py: its short-circuit *)
(* on empty text and its pipeline (normalise ... re-normalise) follow the  *)
(* specification of the endpoint; phrase and tone tables are left out.     *)
(***************************************************************************)
TONE_SUMMARY == "{tone rewrite summary}"

rewrite_tone_response(body) ==
  IF strip(body.text) = <<>> THEN no_text_response
  ELSE [status         |-> 200,
        correctedText  |-> capitalize_and_punctuate(JoinSplit(body.text)),
        changesSummary |-> [template |-> TONE_SUMMARY, args |-> <<body.tone>>],
        appliedTone    |-> None,
        appliedStyle   |-> None]

(***************************************************************************)
(* Inputs.                                                                 *)
(***************************************************************************)
Alphabet == {"a", " ", "."}

SampleTexts ==
  { <<"a", " ", " ", "a">>,
    <<"\t", "a", "\t">>,
    <<" ", " ", " ", " ">>,
    <<"h", "e", "y", " ", "b", "r", "o">>,
    <<"y", "e", "s", " ", "s", "i", "r", "!">>,
    <<"d", "e", "s", "i", "r", "e">>,
    <<Eszett, "a">>,
    <<"i", "t", " ", "i", "s", " ", "o", "k", "a", "y">>,
    <<"7", " ", "u", "p", "?">> }

Texts == UNION {[1..k -> Alphabet] : k \in 0..MaxTextLen} \cup SampleTexts

S_pirate   == <<"p", "i", "r", "a", "t", "e">>
S_Friendly == <<"F", "r", "i", "e", "n", "d", "l", "y">>
S_CORP     == <<"C", "O", "R", "P", "O", "R", "A", "T", "E">>

Modes  == {S_grammar, S_professional, S_casual, S_pirate, <<>>, None}
Tones  == {S_Friendly, S_pirate, None}
Styles == {S_CORP, None}
Tokens == {None, <<>>, <<"h", "f", "_", "k", "e", "y">>}

\* what LanguageTool's check() and correct() make of the cleaned text
LTCorrections ==
  {<<"I", " ", "a", "m", " ">>, <<" ">>, <<"o", "h", " ", "b", "r", "o">>}

\* check() leaves the text alone, corrects it, or raises
CheckOutcomes(cleaned, corrections) ==
  {[kind |-> "ok", corrected |-> c] : c \in {cleaned} \cup corrections}
    \cup {[kind |-> k, corrected |-> None] : k \in {"rate_limit", "error"}}

GeneratedTexts ==
  { <<>>, <<" ", "\t">>,
    <<"h", "i", " ", " ", "y", "o", "u">>,
    <<"7", " ", "u", "p", "!">>,
    <<"R", "e", "w", "r", "i", "t", "t", "e", "n", ":", " ", "o", "k">>,
    <<"r", "e", "w", "r", "i", "t", "t", "e", "n", ":", " ">>,
    <<"T", "e", "x", "t", ":", " ", "a", " ", "t", "e", "x", "t", ":", " ", "b">>,
    <<"t", "e", "x", "t", ":">> }

HFOutcomes ==
  {[kind |-> k, gen |-> None] :
     k \in {"error", "list_empty", "list_other", "dict_nokey", "scalar"}}
    \cup {[kind |-> "list_dict", gen |-> g] :
            g \in GeneratedTexts \cup {None, NonStr}}
    \cup {[kind |-> "dict", gen |-> g] :
            g \in {None, <<"o", "k", " ", "t", "e", "x", "t", ":", " ">>}}

NoOutcome == [kind |-> "none", gen |-> None]

(***************************************************************************)
(* State.                                                                  *)
(***************************************************************************)
Threads == 1..NumThreads
NoTool == 0

VARIABLES
  lt_tool,       \* the module global _lt_tool: NoTool or the client's identity
  HF_API_TOKEN,  \* the module global read from the environment at import
  okInits,       \* clients constructed so far
  failedInits,   \* constructions that raised so far
  pc,            \* per thread: position in the handler
  body,          \* per thread: the request body
  tool,          \* per thread: the local `tool` of apply_language_tool
  grammared,     \* per thread: the result of the grammar pass
  resp,          \* per thread: the response returned
  obs,           \* per thread: what the request did (calls made, outcomes)
  fn, arg, out   \* a direct call of a text function, its argument, its result

vars == <<lt_tool, HF_API_TOKEN, okInits, failedInits, pc, body, tool,
          grammared, resp, obs, fn, arg, out>>

globals == <<lt_tool, okInits, failedInits>>
calls   == <<fn, arg, out>>

NoBody == [endpoint |-> "none", text |-> None, mode |-> None,
           tone |-> None, style |-> None]
NoResp == [status |-> 0, correctedText |-> None,
           changesSummary |-> [template |-> "", args |-> <<>>],
           appliedTone |-> None, appliedStyle |-> None]
NoObs  == [constructs |-> 0, checks |-> 0, posts |-> 0, lt |-> "none",
           hf |-> NoOutcome, used_hf |-> FALSE]

Init ==
  /\ lt_tool = NoTool
  /\ HF_API_TOKEN \in Tokens
  /\ okInits = 0
  /\ failedInits = 0
  /\ pc = [p \in Threads |-> "idle"]
  /\ body = [p \in Threads |-> NoBody]
  /\ tool = [p \in Threads |-> NoTool]
  /\ grammared = [p \in Threads |-> None]
  /\ resp = [p \in Threads |-> NoResp]
  /\ obs = [p \in Threads |-> NoObs]
  /\ fn = "none"
  /\ arg = <<>>
  /\ out = <<>>

(***************************************************************************)
(* apply_language_tool, after get_language_tool() returned tl.  o is what  *)
(* tool.check() and utils.correct() do.                                    *)
(***************************************************************************)
\* without the handler of line 94: an error of check() leaves the function
apply_language_tool_uncaught(tl, text, o) ==
  LET cleaned == strip(text) IN
  IF cleaned = <<>>
    THEN [text |-> <<>>, raised |-> FALSE, checks |-> 0, lt |-> "none"]
  ELSE IF tl = NoTool
    THEN [text |-> cleaned, raised |-> FALSE, checks |-> 0, lt |-> "no_tool"]
  ELSE IF o.kind = "ok"
    THEN [text |-> strip(o.corrected), raised |-> FALSE, checks |-> 1,
          lt |-> "ok"]
  ELSE IF o.kind = "rate_limit"
    THEN [text |-> cleaned, raised |-> FALSE, checks |-> 1,
          lt |-> "rate_limit"]
  ELSE [text |-> cleaned, raised |-> TRUE, checks |-> 1, lt |-> "error"]

apply_language_tool(tl, text, o) ==
  LET cleaned == strip(text) IN
  IF cleaned = <<>>
    THEN [text |-> <<>>, raised |-> FALSE, checks |-> 0, lt |-> "none"]
  ELSE IF tl = NoTool
    THEN [text |-> cleaned, raised |-> FALSE, checks |-> 0, lt |-> "no_tool"]
  ELSE IF o.kind = "ok"
    THEN [text |-> strip(o.corrected), raised |-> FALSE, checks |-> 1,
          lt |-> "ok"]
  ELSE IF o.kind = "rate_limit"   \* except RateLimitError
    THEN [text |-> cleaned, raised |-> FALSE, checks |-> 1,
          lt |-> "rate_limit"]
  ELSE                            \* except Exception
         [text |-> cleaned, raised |-> FALSE, checks |-> 1, lt |-> "error"]

\* simple_correct, line 254: the text the grammar pass is given
simple_correct_cleaned(text) == strip(strip(text))

\* an exception that leaves the handler
error_response ==
  [status |-> 500, correctedText |-> None,
   changesSummary |-> [template |-> "", args |-> <<>>],
   appliedTone |-> None, appliedStyle |-> None]

\* the mode simple_correct runs with
ModeOf(b) ==
  IF b.endpoint = "correct" THEN OrDefault(b.mode, S_grammar) ELSE S_grammar

(***************************************************************************)
(* The handlers, one step per access to shared state or external call.     *)
(***************************************************************************)
\* POST /correct up to the call of get_language_tool
correct_text(p, b) ==
  /\ pc[p] = "idle"
  /\ b.endpoint = "correct"
  /\ body' = [body EXCEPT ![p] = b]
  /\ IF strip(b.text) = <<>>
       THEN /\ resp' = [resp EXCEPT ![p] = no_text_response]
            /\ pc' = [pc EXCEPT ![p] = "done"]
       ELSE IF simple_correct_cleaned(b.text) = <<>>   \* lines 254-256
         THEN /\ resp' = [resp EXCEPT ![p] =
                   [status         |-> 200,
                    correctedText  |-> <<>>,
                    changesSummary |-> [template |-> NO_TEXT, args |-> <<>>],
                    appliedTone    |-> None,
                    appliedStyle   |-> None]]
              /\ pc' = [pc EXCEPT ![p] = "done"]
         ELSE /\ resp' = resp
              /\ pc' = [pc EXCEPT ![p] = "get_tool"]
  /\ UNCHANGED <<globals, HF_API_TOKEN, tool, grammared, obs, calls>>

\* POST /polish-ai up to the call of get_language_tool
polish_ai(p, b) ==
  /\ pc[p] = "idle"
  /\ b.endpoint = "polish-ai"
  /\ body' = [body EXCEPT ![p] = b]
  /\ IF strip(b.text) = <<>>
       THEN /\ resp' = [resp EXCEPT ![p] = no_text_response]
            /\ grammared' = grammared
            /\ pc' = [pc EXCEPT ![p] = "done"]
       ELSE IF simple_correct_cleaned(b.text) = <<>>   \* lines 254-256
         THEN /\ grammared' = [grammared EXCEPT ![p] = <<>>]
              /\ resp' = resp
              /\ pc' = [pc EXCEPT ![p] = "hf"]
         ELSE /\ resp' = resp
              /\ grammared' = grammared
              /\ pc' = [pc EXCEPT ![p] = "get_tool"]
  /\ UNCHANGED <<globals, HF_API_TOKEN, tool, obs, calls>>

\* POST /rewrite-tone
rewrite_tone(p, b) ==
  /\ pc[p] = "idle"
  /\ b.endpoint = "rewrite-tone"
  /\ body' = [body EXCEPT ![p] = b]
  /\ resp' = [resp EXCEPT ![p] = rewrite_tone_response(b)]
  /\ pc' = [pc EXCEPT ![p] = "done"]
  /\ UNCHANGED <<globals, HF_API_TOKEN, tool, grammared, obs, calls>>

\* a get_language_tool that remembers a failed construction
get_language_tool_negative_cache(p) ==
  /\ pc[p] = "get_tool"
  /\ IF lt_tool # NoTool \/ failedInits > 0
       THEN /\ tool' = [tool EXCEPT ![p] = lt_tool]
            /\ pc' = [pc EXCEPT ![p] = "check"]
       ELSE /\ tool' = tool
            /\ pc' = [pc EXCEPT ![p] = "construct"]
  /\ UNCHANGED <<globals, HF_API_TOKEN, body, grammared, resp, obs, calls>>

\* get_language_tool, lines 56-58: the test of the global
get_language_tool(p) ==
  /\ pc[p] = "get_tool"
  /\ IF lt_tool # NoTool
       THEN /\ tool' = [tool EXCEPT ![p] = lt_tool]
            /\ pc' = [pc EXCEPT ![p] = "check"]
       ELSE /\ tool' = tool
            /\ pc' = [pc EXCEPT ![p] = "construct"]
  /\ UNCHANGED <<globals, HF_API_TOKEN, body, grammared, resp, obs, calls>>

\* get_language_tool, lines 61-62: the constructor returns a client
construct_ok(p) ==
  /\ pc[p] = "construct"
  /\ okInits < MaxOkInits
  /\ okInits' = okInits + 1
  /\ lt_tool' = okInits + 1
  /\ tool' = [tool EXCEPT ![p] = okInits + 1]
  /\ obs' = [obs EXCEPT ![p].constructs = @ + 1]
  /\ pc' = [pc EXCEPT ![p] = "check"]
  /\ UNCHANGED <<failedInits, HF_API_TOKEN, body, grammared, resp, calls>>

\* get_language_tool, lines 63-70: the constructor raises
construct_failed(p) ==
  /\ pc[p] = "construct"
  /\ failedInits < MaxFailedInits
  /\ failedInits' = failedInits + 1
  /\ lt_tool' = NoTool
  /\ tool' = [tool EXCEPT ![p] = NoTool]
  /\ obs' = [obs EXCEPT ![p].constructs = @ + 1]
  /\ pc' = [pc EXCEPT ![p] = "check"]
  /\ UNCHANGED <<okInits, HF_API_TOKEN, body, grammared, resp, calls>>

\* apply_language_tool from line 79 and the rest of simple_correct; for
\* /correct the response, for /polish-ai the grammar pass
simple_correct(p, o) ==
  /\ pc[p] = "check"
  /\ LET r   == apply_language_tool(tool[p],
                                    simple_correct_cleaned(body[p].text), o)
         fin == simple_correct_finish(r.text, ModeOf(body[p]))
     IN /\ obs' = [obs EXCEPT ![p].checks = @ + r.checks, ![p].lt = r.lt]
        /\ IF r.raised
             THEN /\ resp' = [resp EXCEPT ![p] = error_response]
                  /\ pc' = [pc EXCEPT ![p] = "done"]
                  /\ grammared' = grammared
           ELSE IF body[p].endpoint = "correct"
             THEN /\ resp' = [resp EXCEPT ![p] =
                       [status         |-> 200,
                        correctedText  |-> fin.corrected,
                        changesSummary |-> fin.summary,
                        appliedTone    |-> None,
                        appliedStyle   |-> None]]
                  /\ pc' = [pc EXCEPT ![p] = "done"]
                  /\ grammared' = grammared
             ELSE /\ grammared' = [grammared EXCEPT ![p] = fin.corrected]
                  /\ pc' = [pc EXCEPT ![p] = "hf"]
                  /\ resp' = resp
  /\ UNCHANGED <<globals, HF_API_TOKEN, body, tool, calls>>

\* polish_ai, lines 309-334: prompt, generation call, response
hf_rewrite(p, o) ==
  /\ pc[p] = "hf"
  /\ LET tone   == lower(OrDefault(body[p].tone, S_friendly))
         style  == lower(OrDefault(body[p].style, S_neutral))
         prompt == build_hf_prompt(grammared[p], tone, style)
         r      == call_hf_rewrite(prompt, grammared[p], HF_API_TOKEN, o)
     IN /\ resp' = [resp EXCEPT ![p] = polish_response(body[p], r.text, r.used_hf)]
        /\ obs' = [obs EXCEPT ![p].posts = @ + r.posts,
                              ![p].hf = IF r.posts > 0 THEN o ELSE NoOutcome,
                              ![p].used_hf = r.used_hf]
  /\ pc' = [pc EXCEPT ![p] = "done"]
  /\ UNCHANGED <<globals, HF_API_TOKEN, body, tool, grammared, calls>>

\* the response is sent; the thread is free for the next request
respond(p) ==
  /\ pc[p] = "done"
  /\ pc' = [pc EXCEPT ![p] = "idle"]
  /\ body' = [body EXCEPT ![p] = NoBody]
  /\ tool' = [tool EXCEPT ![p] = NoTool]
  /\ grammared' = [grammared EXCEPT ![p] = None]
  /\ resp' = [resp EXCEPT ![p] = NoResp]
  /\ obs' = [obs EXCEPT ![p] = NoObs]
  /\ UNCHANGED <<globals, HF_API_TOKEN, calls>>

CorrectBodies(texts, modes) ==
  {[endpoint |-> "correct", text |-> t, mode |-> m, tone |-> None,
    style |-> None] : t \in texts, m \in modes}

PolishBodies(texts, tones, styles) ==
  {[endpoint |-> "polish-ai", text |-> t, mode |-> None, tone |-> tn,
    style |-> st] : t \in texts, tn \in tones, st \in styles}

ToneBodies(texts, tones) ==
  {[endpoint |-> "rewrite-tone", text |-> t, mode |-> None, tone |-> tn,
    style |-> None] : t \in texts, tn \in tones}

\* a step of thread p serving /correct, on requests and collaborator
\* outcomes drawn from in
CorrectStep(p, in) ==
  \/ pc[p] = "idle" /\ \E b \in CorrectBodies(in.texts, in.modes) : correct_text(p, b)
  \/ get_language_tool(p)
  \/ construct_ok(p)
  \/ construct_failed(p)
  \/ pc[p] = "check" /\ \E o \in CheckOutcomes(strip(body[p].text), in.corrections) : simple_correct(p, o)
  \/ respond(p)

\* a step of thread p serving any endpoint
Step(p, in) ==
  \/ CorrectStep(p, in)
  \/ pc[p] = "idle" /\ \E b \in PolishBodies(in.ptexts, in.tones, in.styles) : polish_ai(p, b)
  \/ pc[p] = "idle" /\ \E b \in ToneBodies(in.ptexts, in.tones) : rewrite_tone(p, b)
  \/ pc[p] = "hf" /\ \E o \in in.hf : hf_rewrite(p, o)

\* the texts sent to /polish-ai and /rewrite-tone
PolishTexts == SampleTexts \cup {<<>>, <<"a">>}

Inputs ==
  [texts |-> Texts, modes |-> Modes, ptexts |-> PolishTexts, tones |-> Tones,
   styles |-> Styles, corrections |-> LTCorrections, hf |-> HFOutcomes]

\* one worker: requests are served one after the other
Next == Step(1, Inputs)

Spec == Init /\ [][Next]_vars

(***************************************************************************)
(* The thread pool: FastAPI runs the `def` handlers on worker threads, so  *)
(* requests interleave at every access to _lt_tool and external call.      *)
(* Concurrent /correct requests exercise the shared client.                *)
(***************************************************************************)
ConcInputs ==
  [texts |-> {<<>>, <<"a">>}, modes |-> {None}, corrections |-> {}]

NextConc == \E p \in Threads : CorrectStep(p, ConcInputs)

SpecConc == Init /\ [][NextConc]_vars

(***************************************************************************)
(* Direct calls of the text functions.                                     *)
(***************************************************************************)
KnownTones  == {tone_instruction_map[i][1] : i \in 1..Len(tone_instruction_map)}
KnownStyles == {style_instruction_map[i][1] : i \in 1..Len(style_instruction_map)}

ToneArgs  == KnownTones \cup {S_Friendly, S_pirate, <<>>, None}
StyleArgs == KnownStyles \cup {S_CORP, S_pirate, <<>>, None}

threads == <<lt_tool, HF_API_TOKEN, okInits, failedInits, pc, body, tool,
             grammared, resp, obs>>

call_capitalize_and_punctuate(s) ==
  /\ fn = "none"
  /\ fn' = "capitalize_and_punctuate"
  /\ arg' = s
  /\ out' = capitalize_and_punctuate(s)
  /\ UNCHANGED threads

call_hf_tidy(s) ==
  /\ fn = "none"
  /\ fn' = "hf_tidy"
  /\ arg' = s
  /\ out' = hf_tidy(s)
  /\ UNCHANGED threads

\* the same function again, on its own result
call_again ==
  /\ fn \in {"capitalize_and_punctuate", "hf_tidy"}
  /\ fn' = IF fn = "hf_tidy" THEN "hf_tidy_again"
           ELSE "capitalize_and_punctuate_again"
  /\ arg' = out
  /\ out' = IF fn = "hf_tidy" THEN hf_tidy(out)
            ELSE capitalize_and_punctuate(out)
  /\ UNCHANGED threads

call_build_hf_prompt(text, tone, style) ==
  /\ fn = "none"
  /\ fn' = "build_hf_prompt"
  /\ arg' = <<text, tone, style>>
  /\ out' = build_hf_prompt(text, tone, style)
  /\ UNCHANGED threads

call_basic_tone_adjust(text, mode) ==
  /\ fn = "none"
  /\ fn' = "basic_tone_adjust"
  /\ arg' = <<text, mode>>
  /\ out' = basic_tone_adjust(text, mode)
  /\ UNCHANGED threads

\* the result is dropped
call_return ==
  /\ fn # "none"
  /\ fn' = "none"
  /\ arg' = <<>>
  /\ out' = <<>>
  /\ UNCHANGED threads

NextCalls ==
  \/ \E s \in Texts : call_capitalize_and_punctuate(s)
  \/ \E s \in Texts : call_hf_tidy(s)
  \/ call_again
  \/ \E t \in PolishTexts, tn \in ToneArgs, st \in StyleArgs :
       call_build_hf_prompt(t, tn, st)
  \/ call_return
  \/ \E t \in Texts, m \in Modes : call_basic_tone_adjust(t, m)

SpecCalls == Init /\ [][NextCalls]_vars

(***************************************************************************)
(* Properties.                                                             *)
(***************************************************************************)
Done(p, endpoint) == pc[p] = "done" /\ body[p].endpoint = endpoint
EmptyText(p)      == strip(body[p].text) = <<>>
GrammarFailed(p)  == obs[p].lt \in {"no_tool", "rate_limit", "error"}
SomeToken         == <<"h", "f", "_", "k", "e", "y">>

\* C1: a request whose text is empty or whitespace-only is answered, on each
\* endpoint, with correctedText "" and the summary "No text provided.", and
\* without constructing or calling the grammar client or posting to the
\* generation service: the step that serves it leaves the cached client alone.
C1_NoTextResponse ==
  \A p \in Threads :
    pc[p] = "done" /\ EmptyText(p) =>
      /\ resp[p].status = 200
      /\ resp[p].correctedText = <<>>
      /\ resp[p].changesSummary = [template |-> NO_TEXT, args |-> <<>>]
      /\ obs[p].constructs = 0 /\ obs[p].checks = 0 /\ obs[p].posts = 0
      /\ tool[p] = NoTool

C1_NoStage ==
  \A p \in Threads :
    pc[p] = "idle" /\ pc'[p] # "idle" /\ strip(body'[p].text) = <<>> =>
      /\ pc'[p] = "done"
      /\ lt_tool' = lt_tool /\ okInits' = okInits /\ failedInits' = failedInits

C1_EmptyTextShortCircuits == []C1_NoTextResponse /\ [][C1_NoStage]_vars

C1_Witness ==
  /\ lt_tool # NoTool
  /\ pc[1] = "done"
  /\ body[1].text = <<" ", " ", " ", " ">>
  /\ body[1].endpoint = "polish-ai"
  /\ resp[1] = no_text_response

\* the summaries of the program that say a collaborator was not available
DegradedSummaries == {FALLBACK_SUMMARY}
StatesDegradedMode(summary) == summary.template \in DegradedSummaries

\* C2: the summary of a /correct response states degraded mode exactly when
\* the grammar check did not run (no client, or check() raised).
C2_SummaryStatesDegradedMode ==
  \A p \in Threads :
    Done(p, "correct") /\ ~EmptyText(p) =>
      (GrammarFailed(p) <=> StatesDegradedMode(resp[p].changesSummary))

\* C3 as stated: when the grammar check fails, /correct returns the text with
\* whitespace runs collapsed and trimmed, capitalised and punctuated, whatever
\* the mode.
C3_NormalizedOriginal ==
  \A p \in Threads :
    Done(p, "correct") /\ ~EmptyText(p) /\ GrammarFailed(p) =>
      /\ resp[p].status = 200
      /\ resp[p].correctedText =
           capitalize_and_punctuate(JoinSplit(body[p].text))

\* C3 amended: when the grammar check fails, /correct does not raise and
\* returns the text trimmed at both ends (inner whitespace kept), passed
\* through the light tone adjustment of the request's mode, with its first
\* character uppercased and "." appended unless it ends in ".", "!" or "?".
C3_FallbackText ==
  \A p \in Threads :
    Done(p, "correct") /\ ~EmptyText(p) /\ GrammarFailed(p) =>
      /\ resp[p].status = 200
      /\ resp[p].correctedText =
           capitalize_and_punctuate(
             basic_tone_adjust(strip(body[p].text), ModeOf(body[p])))

C3_Witness ==
  /\ Done(1, "correct")
  /\ obs[1].lt = "error"
  /\ body[1].text = <<"h", "e", "y", " ", "b", "r", "o">>
  /\ body[1].mode = S_professional
  /\ resp[1].correctedText = <<"H", "e", "y", " ", "s", "i", "r", ".">>

\* C4 as stated: across any sequence of requests at most one construction of
\* the grammar client fails.
C4_AtMostOneFailedInit == failedInits <= 1

\* C4 amended: a failed construction is not remembered.  It leaves the handle
\* None, every later call of get_language_tool that finds the handle None
\* attempts the construction again, and one call attempts it at most once.
C4_FailureLeavesNone == failedInits' > failedInits => lt_tool' = NoTool

C4_NoneIsRetried ==
  \A p \in Threads :
    pc[p] = "get_tool" /\ pc'[p] # "get_tool" /\ lt_tool = NoTool =>
      pc'[p] = "construct"

C4_FailureNotCached ==
  /\ [](\A p \in Threads : obs[p].constructs <= 1)
  /\ [][C4_FailureLeavesNone /\ C4_NoneIsRetried]_vars

C4_Witness ==
  /\ failedInits = 1
  /\ okInits = 0
  /\ pc[1] = "construct"
  /\ pc[2] = "idle"

\* C5: under any interleaving the grammar client is constructed at most once,
\* and once constructed it stays the shared handle.
C5_ConstructedOnce ==
  /\ okInits <= 1
  /\ okInits = 1 => lt_tool = 1

\* the outcomes of the generation call that count as a failure
EmptyAfterEcho ==
  { <<" ", "\t">>,
    <<"r", "e", "w", "r", "i", "t", "t", "e", "n", ":", " ">> }

FailedGeneration(o) ==
  \/ o.kind \in {"error", "list_empty", "list_other", "dict_nokey", "scalar"}
  \/ o.gen \in {None, NonStr, <<>>}
  \/ o.gen \in EmptyAfterEcho

\* C6: when the generation call of a /polish-ai request fails, the response
\* carries the grammar-pass text and the summary that the Hugging Face model
\* was not available; the Smart Rewrite summary goes with used_hf only.
C6_FallbackOnFailedGeneration ==
  \A p \in Threads :
    Done(p, "polish-ai") /\ ~EmptyText(p) =>
      /\ obs[p].posts > 0 /\ FailedGeneration(obs[p].hf) =>
           /\ ~obs[p].used_hf
           /\ resp[p].correctedText = grammared[p]
           /\ resp[p].changesSummary.template = FALLBACK_SUMMARY
      /\ resp[p].changesSummary.template = HF_SUMMARY <=> obs[p].used_hf
      /\ resp[p].changesSummary.template \in {HF_SUMMARY, FALLBACK_SUMMARY}

C6_Witness ==
  /\ Done(1, "polish-ai")
  /\ obs[1].posts = 1
  /\ obs[1].hf.kind = "list_dict"
  /\ obs[1].hf.gen = <<"r", "e", "w", "r", "i", "t", "t", "e", "n", ":", " ">>
  /\ grammared[1] = <<"H", "e", "y", " ", "b", "r", "o", ".">>
  /\ resp[1].correctedText = grammared[1]

\* C7: without a token the /polish-ai response is, field by field, the one a
\* failing generation call gives with a token, and nothing is posted.
C7_NoTokenAsUnavailable ==
  \A p \in Threads :
    Done(p, "polish-ai") /\ ~EmptyText(p) /\ HF_API_TOKEN \in {None, <<>>} =>
      /\ obs[p].posts = 0
      /\ \A o \in {x \in HFOutcomes : FailedGeneration(x)} :
           LET tone   == lower(OrDefault(body[p].tone, S_friendly))
               style  == lower(OrDefault(body[p].style, S_neutral))
               prompt == build_hf_prompt(grammared[p], tone, style)
               r      == call_hf_rewrite(prompt, grammared[p], SomeToken, o)
           IN resp[p] = polish_response(body[p], r.text, r.used_hf)

C7_Witness ==
  /\ Done(1, "polish-ai")
  /\ HF_API_TOKEN = None
  /\ obs[1].posts = 0
  /\ grammared[1] # <<>>
  /\ resp[1].correctedText = grammared[1]
  /\ resp[1].changesSummary.template = FALLBACK_SUMMARY

\* C8: capitalising and punctuating a second time changes nothing, and the
\* empty string stays empty (the step of simple_correct and that of
\* call_hf_rewrite).
C8_CapitalizePunctuateIdempotent ==
  /\ fn \in {"capitalize_and_punctuate_again", "hf_tidy_again"} => out = arg
  /\ fn \in {"capitalize_and_punctuate", "hf_tidy"} /\ arg = <<>> => out = <<>>

C8_Witness ==
  /\ fn = "capitalize_and_punctuate_again"
  /\ arg = <<"A", " ", "a", ".">>
  /\ out = arg

\* C9: an unknown tone gives the prompt of the neutral tone, an unknown style
\* the prompt of the neutral style, and a mode other than professional or
\* casual leaves the text of basic_tone_adjust unchanged.
C9_UnknownFallsBackToNeutral ==
  /\ fn = "build_hf_prompt" =>
       /\ arg[2] \notin {S_friendly, S_professional, S_confident, S_calm,
                         S_caring, S_persuasive, S_neutral} =>
            out = build_hf_prompt(arg[1], S_neutral, arg[3])
       /\ arg[3] \notin {S_neutral, S_student, S_corporate, S_ielts,
                         S_romantic} =>
            out = build_hf_prompt(arg[1], arg[2], S_neutral)
  /\ fn = "basic_tone_adjust" /\ arg[2] \notin {S_professional, S_casual} =>
       out = arg[1]

C9_Witness ==
  /\ fn = "build_hf_prompt"
  /\ arg[2] = S_pirate
  /\ arg[3] = S_CORP
  /\ out.tone_part = "in a neutral tone"
  /\ out.style_part = "with normal everyday English"

\* C10: a request calls check() at most once and posts to the generation
\* service at most once; a check() that raises leaves the cached handle as it
\* was, and a request that finds a cached handle uses it without constructing.
C10_CheckFailureKeepsHandle ==
  \A p \in Threads :
    pc[p] = "check" /\ pc'[p] # "check" /\ obs'[p].lt \in {"rate_limit", "error"} =>
      lt_tool' = lt_tool /\ lt_tool' = tool[p]

C10_CachedHandleReused ==
  \A p \in Threads :
    pc[p] = "get_tool" /\ pc'[p] # "get_tool" /\ lt_tool # NoTool =>
      pc'[p] = "check" /\ tool'[p] = lt_tool /\ obs'[p].constructs = 0

C10_NoRetryNoTeardown ==
  /\ [](\A p \in Threads : obs[p].checks <= 1 /\ obs[p].posts <= 1)
  /\ [][C10_CheckFailureKeepsHandle /\ C10_CachedHandleReused]_vars

C10_Witness ==
  /\ okInits = 1
  /\ failedInits = 0
  /\ lt_tool = 1
  /\ pc[1] = "done"
  /\ obs[1].constructs = 0
  /\ obs[1].checks = 1
  /\ obs[1].lt = "rate_limit"

====
